---- MODULE Spec2Model ----
(***************************************************************************)
(* CXIWriter (condor/utils/cxiwriter.py): a writer that stacks the leaves  *)
(* of nested records into growable HDF5 datasets.                          *)
(*                                                                         *)
(* The HDF5 file is modelled as a set of group paths and a map from        *)
(* dataset paths to datasets.  A path is the sequence of its keys, "/a/b"  *)
(* being <<"a", "b">>.  A dataset holds its shape, its maxshape, its       *)
(* dtype, its "axes" attribute and its rows: rows[j + 1] is the flattened  *)
(* (row-major) content at leading-axis index j, 0 being HDF5's fill value. *)
(*                                                                         *)
(* read_map (same file): the reader of CCP4 map files, a pure function of  *)
(* the file's bytes, run under the specification SpecMap.                  *)
(***************************************************************************)
EXTENDS Integers, Sequences, FiniteSets, TLC

\* Bounds of the model.
MaxChunk == 2     \* chunk sizes 1 .. MaxChunk
MaxCalls == 3     \* write() calls made by the producer
MaxPayload == 5   \* bytes after a map file's header: 0 .. 4 * MaxPayload

\* None in a maxshape: the axis is unlimited.
Unlimited == 0

(***************************************************************************)
(* The interpreter and h5py build.  The module declares itself compatible  *)
(* with python 2 and 3: self._i/self._chunksize is a floor division in     *)
(* python 2 and a true division in python 3, whose float result h5py       *)
(* either truncates (__int__) or rejects with a TypeError.                 *)
(***************************************************************************)
Builds == {"py2", "py3_trunc", "py3_raise"}

VARIABLES
  build,      \* the interpreter/h5py build, fixed at start
  chunksize,  \* self._chunksize
  f,          \* self._f: the open container, [groups, ds]
  i,          \* self._i
  closed,     \* self._f has been closed
  pc,         \* where write() stands: "idle", "flush" or "incr"
  disk,       \* what has been flushed to storage
  result,     \* how the last call ended: "ok" or the exception raised
  warned,     \* the log of log_warning: the dataset paths it was called for
  arg,        \* the record D of the write() call in progress
  ncalls,     \* history: the number of write() calls made
  sent,       \* history: the records passed to write(), while they share a schema
  first,      \* history: per dataset, the value it was created from
  reader      \* read_map: the file given, where the call stands and its outcome

vars == <<build, chunksize, f, i, closed, pc, disk, result, warned, arg, ncalls, sent, first, reader>>

----------------------------------------------------------------------------
(* Values of a record.                                                     *)

Scalar(v) == [kind |-> "scalar", shape |-> <<>>, v |-> v]
NdArray(s, v) == [kind |-> "ndarray", shape |-> s, v |-> v]
PyList(s, v) == [kind |-> "list", shape |-> s, v |-> v]
\* A value numpy.asarray turns into an array of dtype object (None, say).
PyObject == [kind |-> "object", shape |-> <<>>, v |-> 0]
Dict(ks, val) == [kind |-> "dict", keys |-> ks, val |-> val]

\* isinstance(D[k], dict)
IsDict(x) == x.kind = "dict"

\* numpy.isscalar(data)
IsScalar(data) == data.kind = "scalar"

\* numpy.asarray(data): an ndarray is returned as it is, a list becomes an
\* ndarray of its shape, anything else a 0-d array of dtype object.
AsArray(data) ==
  IF data.kind = "ndarray" THEN data
  ELSE IF data.kind = "list" THEN [kind |-> "ndarray", shape |-> data.shape, v |-> data.v]
  ELSE [kind |-> "ndarray_object", shape |-> <<>>, v |-> 0]

\* data.dtype / numpy.dtype(type(data))
DType(data) == IF data.kind = "ndarray_object" THEN "object" ELSE "int64"

\* hasattr(data, "shape")
HasShape(data) == data.kind \in {"ndarray", "ndarray_object"}

RECURSIVE Prod(_)
Prod(s) == IF s = <<>> THEN 1 ELSE Head(s) * Prod(Tail(s))

\* The flattened content of a value broadcast to a row of trailing shape s.
Fill(s, v) == [k \in 1..Prod(s) |-> v]

----------------------------------------------------------------------------
(* h5py: datasets.                                                         *)

EmptyFile == [groups |-> {<<>>}, ds |-> <<>>]

\* k in self._f[group_prefix]
Contains(file, group_prefix, k) ==
  \/ (group_prefix \o <<k>>) \in DOMAIN file.ds
  \/ (group_prefix \o <<k>>) \in file.groups

PutDs(file, name, d) ==
  [file EXCEPT !.ds = [n \in (DOMAIN file.ds) \cup {name} |-> IF n = name THEN d ELSE file.ds[n]]]

\* self._f.create_dataset(name, shape, maxshape=maxshape, dtype=dtype) and
\* self._f[name].attrs.modify("axes", [axes])
CreateDataset(file, name, shape, maxshape, dtype, axes) ==
  PutDs(file, name,
        [shape |-> shape, maxshape |-> maxshape, dtype |-> dtype, axes |-> axes,
         rows |-> [j \in 1..Head(shape) |-> Fill(Tail(shape), 0)]])

\* The multi-index (0-based) of flat position k (0-based) in shape s.
RECURSIVE Unravel(_, _)
Unravel(k, s) ==
  IF s = <<>> THEN <<>>
  ELSE <<k \div Prod(Tail(s))>> \o Unravel(k % Prod(Tail(s)), Tail(s))

RECURSIVE Ravel(_, _)
Ravel(idx, s) ==
  IF s = <<>> THEN 0
  ELSE Head(idx) * Prod(Tail(s)) + Ravel(Tail(idx), Tail(s))

\* A row of trailing shape old seen in trailing shape new (same rank): the
\* elements inside both extents are kept, the others are the fill value.
Reextent(row, old, new) ==
  IF old = new THEN row
  ELSE [k \in 1..Prod(new) |->
          LET idx == Unravel(k - 1, new) IN
          IF \A a \in 1..Len(new) : idx[a] < old[a]
          THEN row[Ravel(idx, old) + 1] ELSE 0]

\* Dataset.resize(new_shape) can be done: the rank is kept and no axis
\* exceeds its maxshape.
CanResize(d, new_shape) ==
  /\ Len(new_shape) = Len(d.shape)
  /\ \A a \in 1..Len(new_shape) :
       d.maxshape[a] = Unlimited \/ new_shape[a] <= d.maxshape[a]

\* Dataset.resize(new_shape): data inside both extents is preserved.
ResizeBlank(d, new_shape) ==
  [d EXCEPT !.shape = new_shape,
            !.rows = [j \in 1..Head(new_shape) |-> Fill(Tail(new_shape), 0)]]

Resize(d, new_shape) ==
  [d EXCEPT !.shape = new_shape,
            !.rows = [j \in 1..Head(new_shape) |->
                        IF j <= Head(d.shape)
                        THEN Reextent(d.rows[j], Tail(d.shape), Tail(new_shape))
                        ELSE Fill(Tail(new_shape), 0)]]

\* s is a suffix of t: h5py broadcasts a source of shape s to a selection
\* of shape t (no axis of the values here has length 1).
IsSuffix(s, t) ==
  /\ Len(s) <= Len(t)
  /\ \A a \in 1..Len(s) : s[a] = t[Len(t) - Len(s) + a]

----------------------------------------------------------------------------
(* CXIWriter._write_without_iterate: one leaf.  The walk carries           *)
(* st = [f, exc, warned, first]: the file, the exception raised so far     *)
(* ("none" when there is none), and the two histories.                     *)

Raise(st, e) == [st EXCEPT !.exc = e]

\* The axes attribute of a new dataset.
Axes(data) ==
  IF IsScalar(data) THEN "experiment_identifier:value"
  ELSE IF Len(data.shape) = 1 THEN "experiment_identifier:x"
  ELSE IF Len(data.shape) = 2 THEN "experiment_identifier:y:x"
  ELSE IF Len(data.shape) = 3 THEN "experiment_identifier:z:y:x"
  ELSE "experiment_identifier"

\* The pairs (chunksize, i) at which the float chunksize*(i/chunksize+1)
\* falls just below the integer i + chunksize (IEEE double arithmetic).
FloatShort == {<<3, 4>>, <<3, 11>>, <<3, 22>>, <<6, 8>>, <<6, 19>>, <<6, 22>>, <<7, 22>>}

\* self._chunksize*(self._i/self._chunksize+1): an int under python 2 (floor
\* division), a float under python 3, given here by its integer part.
NewLeadingWrong(C, n) == C * (n \div C)

NewLeading(C, n) ==
  IF build = "py2" THEN C * ((n \div C) + 1)
  ELSE IF <<C, n>> \in FloatShort THEN n + C - 1 ELSE n + C

\* The dataset of a leaf seen for the first time.
CreateLeafUntagged(st, name, data) ==
  [st EXCEPT !.f = CreateDataset(st.f, name, <<chunksize>> \o data.shape,
                                 <<Unlimited>> \o data.shape, DType(data), "experiment_identifier"),
             !.first = [n \in (DOMAIN st.first) \cup {name} |->
                          IF n = name THEN data ELSE st.first[n]]]

CreateLeaf(st, name, data) ==
  [st EXCEPT !.f = CreateDataset(st.f, name, <<chunksize>> \o data.shape,
                                 <<Unlimited>> \o data.shape, DType(data), Axes(data)),
             !.first = [n \in (DOMAIN st.first) \cup {name} |->
                          IF n = name THEN data ELSE st.first[n]]]

\* if self._f[name].shape[0] <= self._i: resize to the next chunk boundary,
\* with the trailing shape of the value being written.
GrowLeaf(st, name, data) ==
  LET d == st.f.ds[name] IN
  IF ~(Head(d.shape) <= i) THEN st
  ELSE IF ~IsScalar(data) /\ ~HasShape(data) THEN Raise(st, "AttributeError")
  ELSE LET data_shape == IF IsScalar(data) THEN <<>> ELSE data.shape
           new_shape == <<NewLeading(chunksize, i)>> \o data_shape
       IN IF build = "py3_raise" THEN Raise(st, "TypeError")
          ELSE IF ~CanResize(d, new_shape) THEN Raise(st, "ValueError")
          ELSE [st EXCEPT !.f = PutDs(st.f, name, Resize(d, new_shape))]

\* self._f[name][self._i] = data, or self._f[name][self._i,:] = data[:]
StoreLeafAt(st, name, data, pos) ==
  LET d == st.f.ds[name]
      put == [st EXCEPT !.f = PutDs(st.f, name,
                 [d EXCEPT !.rows[pos + 1] = Fill(Tail(d.shape), data.v)])]
  IN IF IsScalar(data) THEN put
     ELSE IF data.kind = "object" THEN Raise(st, "TypeError")
     ELSE IF data.shape = <<>> THEN Raise(st, "IndexError")
     ELSE IF Len(d.shape) = 1 THEN Raise(st, "TypeError")
     ELSE IF ~IsSuffix(data.shape, Tail(d.shape)) THEN Raise(st, "TypeError")
     ELSE put

StoreLeaf(st, name, data) == StoreLeafAt(st, name, data, i)

\* log_warning(logger, "Could not save dataset ..."): the warning is logged.
LogWarning(st, name) == [st EXCEPT !.warned = Append(@, name)]

\* The else branch of the loop body: the leaf D[k] of the group group_prefix.
WriteLeaf(st, group_prefix, k, value) ==
  LET name == group_prefix \o <<k>>
      creating == ~Contains(st.f, group_prefix, k)
      data == IF creating /\ ~IsScalar(value) THEN AsArray(value) ELSE value
  IN IF closed THEN Raise(st, "ValueError")
     ELSE IF creating /\ DType(data) = "object"
          THEN LogWarning(st, name)
     ELSE LET st1 == IF creating THEN CreateLeaf(st, name, data) ELSE st
          IN IF name \notin DOMAIN st1.f.ds THEN Raise(st1, "AttributeError")
             ELSE LET st2 == GrowLeaf(st1, name, data)
                  IN IF st2.exc # "none" THEN st2 ELSE StoreLeaf(st2, name, data)

----------------------------------------------------------------------------
(* CXIWriter._write_without_iterate: the walk over the keys ks of D.       *)

CreateGroup(file, path) == [file EXCEPT !.groups = @ \cup {path}]

RECURSIVE WriteWithoutIterate(_, _, _, _)
WriteWithoutIterate(st, D, ks, group_prefix) ==
  IF ks = <<>> \/ st.exc # "none" THEN st
  ELSE LET k == Head(ks) IN
       IF IsDict(D.val[k])
       THEN LET group_prefix_new == group_prefix \o <<k>>
                st1 == IF closed THEN Raise(st, "ValueError")
                       ELSE IF ~Contains(st.f, group_prefix, k)
                            THEN [st EXCEPT !.f = CreateGroup(st.f, group_prefix_new)]
                       ELSE st
                st2 == WriteWithoutIterate(st1, D.val[k], D.val[k].keys, group_prefix_new)
            IN WriteWithoutIterate(st2, D, Tail(ks), group_prefix)
       ELSE WriteWithoutIterate(WriteLeaf(st, group_prefix, k, D.val[k]), D, Tail(ks), group_prefix)

----------------------------------------------------------------------------
(* CXIWriter._shrink_stacks                                                *)

IsChild(n, group_prefix) ==
  /\ Len(n) = Len(group_prefix) + 1
  /\ SubSeq(n, 1, Len(group_prefix)) = group_prefix

\* The datasets directly under group_prefix resized to the stack length n.
ShrinkHere(file, group_prefix, n) ==
  [file EXCEPT !.ds = [name \in DOMAIN file.ds |->
      IF IsChild(name, group_prefix)
      THEN Resize(file.ds[name], <<n>> \o Tail(file.ds[name].shape))
      ELSE file.ds[name]]]

RECURSIVE ShrinkStacks(_, _)
RECURSIVE ShrinkGroups(_, _)
ShrinkGroups(file, gs) ==
  IF gs = {} THEN file
  ELSE LET g == CHOOSE x \in gs : TRUE
       IN ShrinkGroups(ShrinkStacks(file, g), gs \ {g})

ShrinkStacksFlat(file, group_prefix) == ShrinkHere(file, group_prefix, i)

ShrinkStacks(file, group_prefix) ==
  ShrinkGroups(ShrinkHere(file, group_prefix, i),
               {g \in file.groups : IsChild(g, group_prefix)})

----------------------------------------------------------------------------
(* The records the producer passes: a leaf "a" and a group "g" holding a   *)
(* leaf "x", each present or not, the keys in either order.  ValuesAG are  *)
(* the values of "a" in the records that hold "g" too.                     *)

ValuesA ==
  {Scalar(1), Scalar(2), PyList(<<2>>, 1), PyObject,
   NdArray(<<>>, 1), NdArray(<<2>>, 1), NdArray(<<3>>, 1),
   NdArray(<<2, 2>>, 1), NdArray(<<2, 2, 2>>, 1), NdArray(<<2, 2, 2, 2>>, 1)}

ValuesAG == {Scalar(1), Scalar(2), PyList(<<2>>, 1), PyObject, NdArray(<<2>>, 1)}

ValuesX == {Scalar(1), PyList(<<2>>, 1)}

GroupsG == {Dict(<<"x">>, [k \in {"x"} |-> x]) : x \in ValuesX}

Records ==
  {Dict(<<>>, <<>>)}
  \cup {Dict(<<"a">>, [k \in {"a"} |-> a]) : a \in ValuesA}
  \cup {Dict(<<"g">>, [k \in {"g"} |-> g]) : g \in GroupsG}
  \cup {Dict(ks, [k \in {"a", "g"} |-> IF k = "a" THEN ag[1] ELSE ag[2]]) :
          ks \in {<<"a", "g">>, <<"g", "a">>}, ag \in ValuesAG \X GroupsG}

\* The schema of a record: its key tree with the kind and shape of each leaf.
RECURSIVE Schema(_)
Schema(D) ==
  [k \in {D.keys[n] : n \in 1..Len(D.keys)} |->
     IF IsDict(D.val[k]) THEN Schema(D.val[k]) ELSE [D.val[k] EXCEPT !.v = 0]]

\* The history of calls once D is passed: the records while they share one
\* schema, and none of them (mixed) from the first record that differs.
Mixed == [mixed |-> TRUE, recs |-> <<>>]

Sent(D) ==
  IF sent.mixed THEN Mixed
  ELSE IF sent.recs # <<>> /\ Schema(sent.recs[1]) # Schema(D) THEN Mixed
  ELSE [mixed |-> FALSE, recs |-> Append(sent.recs, D)]

----------------------------------------------------------------------------
(* read_map: the reader of CCP4 map files.  A file is given by the number  *)
(* hlen of bytes f.read(1024) returns, the header words the code decodes   *)
(* (each there only if hlen covers it) and the bytes rest after the        *)
(* header.                                                                 *)

\* 1024 bytes header
HeaderSize == 1024

MapFile(hlen, NCNRNS, MODE, NSYMBT, rest) ==
  [hlen |-> hlen, NCNRNS |-> NCNRNS, MODE |-> MODE, NSYMBT |-> NSYMBT, rest |-> rest]

\* numpy.frombuffer(header_buf, dtype="int32"): the number of words decoded.
NumWords(file) == file.hlen \div 4

\* ["i8", "int32", "float32", "cint32", "complex64", "i8"]
MapDTypes == <<"i8", "int32", "float32", "cint32", "complex64", "i8">>

\* list[n] of python: n from -len to len - 1, the negative ones from the end.
InRange(list, n) == n >= -Len(list) /\ n < Len(list)
At(list, n) == list[IF n < 0 THEN n + Len(list) + 1 ELSE n + 1]

\* numpy.dtype(dtype).itemsize; 0 where numpy knows no such dtype ("cint32").
ItemSize(dtype) ==
  IF dtype = "i8" THEN 8
  ELSE IF dtype \in {"int32", "float32"} THEN 4
  ELSE IF dtype = "complex64" THEN 8
  ELSE 0

\* numpy.frombuffer(data, dtype): element k is made of the k-th group of
\* itemsize bytes.
FromBuffer(data, size) ==
  [k \in 1..(Len(data) \div size) |-> SubSeq(data, (k - 1) * size + 1, k * size)]

\* The names bound at module level.
Globals ==
  {"print_function", "absolute_import", "numpy", "os", "logging", "logger",
   "log_and_raise_error", "log_warning", "log_info", "log_debug", "h5py",
   "CXIWriter", "read_map"}

\* A name resolves: it is a local of the call or a global of the module.
IsBound(name, locals) == name \in (DOMAIN locals) \cup Globals

NoArray == [shape |-> <<>>, elems |-> <<>>]

\* How a call ends: the file position, the bytes skipped after the header,
\* "returned" or the exception raised, the warnings logged, the array.
Outcome(pos, skipped, result_, warned_, ret) ==
  [pos |-> pos, skipped |-> skipped, result |-> result_, warned |-> warned_, ret |-> ret]

\* read_map from NSYMBT on: the symmetry block, the payload, the return.
ReadPayload(file, locals, warned_) ==
  LET NSYMBT == file.NSYMBT
      skipped == IF NSYMBT > 0
                 THEN (IF NSYMBT < Len(file.rest) THEN NSYMBT ELSE Len(file.rest))
                 ELSE 0
      warned1 == IF NSYMBT > 0 THEN Append(warned_, "symmetry") ELSE warned_
      data == SubSeq(file.rest, skipped + 1, Len(file.rest))
      end == file.hlen + Len(file.rest)
      size == ItemSize(locals.dtype)
  IN IF NumWords(file) < 24
     THEN Outcome(file.hlen, 0, "IndexError", warned_, NoArray)
     ELSE IF size = 0
     THEN Outcome(end, skipped, "TypeError", warned1, NoArray)
     ELSE IF Len(data) % size # 0
     THEN Outcome(end, skipped, "ValueError", warned1, NoArray)
     ELSE IF Len(data) \div size # Prod(locals.NCNRNS)
     THEN Outcome(end, skipped, "ValueError", warned1, NoArray)
     ELSE IF ~IsBound("dx", locals)
     THEN Outcome(end, skipped, "NameError", warned1, NoArray)
     ELSE Outcome(end, skipped, "returned", warned1,
                  [shape |-> locals.NCNRNS, elems |-> FromBuffer(data, size)])

\* read_map(filename)
ReadMap(file) ==
  LET header_len == file.hlen
      locals == [filename |-> "filename", f |-> "f", header_buf |-> header_len,
                 NCNRNS |-> SubSeq(file.NCNRNS, 1, IF NumWords(file) < 3 THEN NumWords(file) ELSE 3),
                 MODE |-> file.MODE,
                 dtype |-> IF InRange(MapDTypes, file.MODE) THEN At(MapDTypes, file.MODE) ELSE ""]
  IN IF header_len % 4 # 0
     THEN Outcome(header_len, 0, "ValueError", <<>>, NoArray)
     ELSE IF NumWords(file) < 4
     THEN Outcome(header_len, 0, "IndexError", <<>>, NoArray)
     ELSE IF ~InRange(MapDTypes, file.MODE)
     THEN Outcome(header_len, 0, "IndexError", <<>>, NoArray)
     ELSE IF ~IsBound("dtype_mode", locals)
     THEN Outcome(header_len, 0, "NameError", <<>>, NoArray)
     ELSE ReadPayload(file, locals,
                      IF locals["dtype_mode"] \notin {0, 2} THEN <<"mode">> ELSE <<>>)

\* No call of read_map has been made.
NoFile == MapFile(0, <<>>, 0, 0, <<>>)
NoRead == [file |-> NoFile, pc |-> "off", out |-> Outcome(0, 0, "none", <<>>, NoArray)]

----------------------------------------------------------------------------
(* The writer.                                                             *)

\* No call is in progress.
NoArg == Dict(<<>>, <<>>)

\* CXIWriter.__init__
Init ==
  /\ build \in Builds
  /\ chunksize \in 1..MaxChunk
  /\ f = EmptyFile
  /\ i = 0
  /\ closed = FALSE
  /\ pc = "idle"
  /\ disk = EmptyFile
  /\ result = "ok"
  /\ warned = <<>>
  /\ arg = NoArg
  /\ ncalls = 0
  /\ sent = [mixed |-> FALSE, recs |-> <<>>]
  /\ first = <<>>
  /\ reader = NoRead

\* write(D), up to the return of self._write_without_iterate(D): an
\* exception leaves write() there.
WriteWalk(D) ==
  /\ pc = "idle"
  /\ ncalls < MaxCalls
  /\ LET st == WriteWithoutIterate([f |-> f, exc |-> "none", warned |-> warned, first |-> first],
                                   D, D.keys, <<>>)
     IN /\ f' = st.f
        /\ warned' = st.warned
        /\ first' = st.first
        /\ result' = IF st.exc = "none" THEN "running" ELSE st.exc
        /\ pc' = IF st.exc = "none" THEN "flush" ELSE "idle"
        /\ arg' = IF st.exc = "none" THEN D ELSE NoArg
  /\ ncalls' = ncalls + 1
  /\ sent' = Sent(D)
  /\ UNCHANGED <<build, chunksize, i, closed, disk, reader>>

\* A flush that a closed file lets through.
WriteFlushUnchecked ==
  /\ pc = "flush"
  /\ disk' = f
  /\ pc' = "incr"
  /\ UNCHANGED <<build, chunksize, f, i, closed, result, warned, arg, ncalls, sent, first, reader>>

\* A write() that goes on to the increment without flushing.
WriteFlushSkipped ==
  /\ pc = "flush"
  /\ IF closed
     THEN /\ result' = "ValueError"
          /\ pc' = "idle"
          /\ arg' = NoArg
     ELSE /\ pc' = "incr"
          /\ UNCHANGED <<result, arg>>
  /\ UNCHANGED <<build, chunksize, f, i, closed, disk, warned, ncalls, sent, first, reader>>

\* write(D): self._f.flush()
WriteFlush ==
  /\ pc = "flush"
  /\ IF closed
     THEN /\ result' = "ValueError"
          /\ pc' = "idle"
          /\ arg' = NoArg
          /\ UNCHANGED disk
     ELSE /\ disk' = f
          /\ pc' = "incr"
          /\ UNCHANGED <<result, arg>>
  /\ UNCHANGED <<build, chunksize, f, i, closed, warned, ncalls, sent, first, reader>>

\* write(D): self._i += 1, and the return
WriteIncr ==
  /\ pc = "incr"
  /\ i' = i + 1
  /\ pc' = "idle"
  /\ result' = "ok"
  /\ arg' = NoArg
  /\ UNCHANGED <<build, chunksize, f, closed, disk, warned, ncalls, sent, first, reader>>

\* close(): on a closed file self._f["/"] raises.
Close ==
  /\ pc = "idle"
  /\ IF closed
     THEN /\ result' = "ValueError"
          /\ UNCHANGED <<f, disk, closed>>
     ELSE /\ f' = ShrinkStacks(f, <<>>)
          /\ disk' = f'
          /\ closed' = TRUE
          /\ result' = "ok"
  /\ UNCHANGED <<build, chunksize, i, pc, warned, arg, ncalls, sent, first, reader>>

Next ==
  \/ \E D \in Records : WriteWalk(D)
  \/ WriteFlush
  \/ WriteIncr
  \/ Close

Spec == Init /\ [][Next]_vars

----------------------------------------------------------------------------
(* The reader on its own: one call of read_map on a file drawn from        *)
(* MapFiles.                                                               *)

\* Header lengths: empty, cut inside a word, before MODE, before NSYMBT,
\* after NSYMBT, one word short, complete.
HeaderLens == {0, 2, 12, 16, 92, 96, 1020, HeaderSize}

\* The n bytes after the header: byte k holds k % 7.
Bytes(n) == [k \in 1..n |-> k % 7]

MapFiles ==
  {MapFile(hlen, e, m, n, Bytes(IF hlen = HeaderSize THEN len ELSE 0)) :
     hlen \in HeaderLens,
     e \in {<<c, r, 1>> : c \in 1..2, r \in 1..2},
     m \in -1..6,
     n \in {-4, 0, 4},
     len \in 0..(4 * MaxPayload)}

InitMap ==
  /\ build \in Builds
  /\ chunksize = 1
  /\ f = EmptyFile
  /\ i = 0
  /\ closed = FALSE
  /\ pc = "idle"
  /\ disk = EmptyFile
  /\ result = "ok"
  /\ warned = <<>>
  /\ arg = NoArg
  /\ ncalls = 0
  /\ sent = [mixed |-> FALSE, recs |-> <<>>]
  /\ first = <<>>
  /\ \E file \in MapFiles : reader = [file |-> file, pc |-> "ready", out |-> NoRead.out]

\* The call read_map(filename), from open() to the return or the exception.
ReadMapCall ==
  /\ reader.pc = "ready"
  /\ reader' = [reader EXCEPT !.pc = "done", !.out = ReadMap(reader.file)]
  /\ UNCHANGED <<build, chunksize, f, i, closed, pc, disk, result, warned, arg, ncalls, sent, first>>

NextMap == ReadMapCall

SpecMap == InitMap /\ [][NextMap]_vars

----------------------------------------------------------------------------
(* Vocabulary of the properties.                                           *)

\* The leaves of a record: the pairs <<path, value>>.
RECURSIVE LeavesOf(_, _)
LeavesOf(D, prefix) ==
  UNION {IF IsDict(D.val[k]) THEN LeavesOf(D.val[k], prefix \o <<k>>)
         ELSE {<<prefix \o <<k>>, D.val[k]>>} : k \in {D.keys[n] : n \in 1..Len(D.keys)}}

\* The physical capacity of a dataset: its leading-axis length.
Capacity(file, name) == Head(file.ds[name].shape)

\* file holds the value val of leaf name at leading-axis index j.
Holds(file, name, j, val) ==
  /\ name \in DOMAIN file.ds
  /\ j < Capacity(file, name)
  /\ file.ds[name].rows[j + 1] = Fill(Tail(file.ds[name].shape), val.v)

\* The entry of a dataset at leading-axis index j: its extent and content.
Entry(file, name, j) ==
  [shape |-> Tail(file.ds[name].shape), row |-> file.ds[name].rows[j + 1]]

\* All records passed so far share one schema (section 3 of the spec).
OneSchema == ~sent.mixed

\* A leaf value the spec gives a Stacked Array and an axis tag to: a scalar,
\* or an array (or array-like) of 1 to 3 dimensions.
Specified(val) ==
  \/ val.kind = "scalar"
  \/ val.kind \in {"ndarray", "list"} /\ Len(val.shape) \in 1..3

\* close() has just returned.
JustClosed == closed /\ result = "ok"

----------------------------------------------------------------------------
\* C1: round trip. After write(r_0), ..., write(r_{N-1}) of records sharing
\* one schema and close(), every leaf's Stacked Array holds at index j the
\* value the leaf had in r_j, for every j < N.
C1_RoundTrip ==
  (JustClosed /\ OneSchema) =>
    \A j \in 1..Len(sent.recs) : \A lv \in LeavesOf(sent.recs[j], <<>>) :
      Specified(lv[2]) =>
        /\ Holds(disk, lv[1], j - 1, lv[2])
        /\ Capacity(disk, lv[1]) = Len(sent.recs)

\* C2: after close() following N completed writes (i = N), every Stacked
\* Array, at every nesting depth and whichever records held its leaf, has
\* leading-axis length N, in the container and in what reached storage.
C2_CloseTruncates ==
  closed =>
    /\ disk = f
    /\ \A name \in DOMAIN disk.ds : Capacity(disk, name) = i

\* C2 witness: a closed writer whose two datasets, one of them nested, were
\* truncated from the chunk size 2 to the one record written.
C2_Witness ==
  /\ closed /\ chunksize = 2 /\ i = 1
  /\ DOMAIN disk.ds = {<<"a">>, <<"g", "x">>}

SpecifiedLeaves ==
  \A j \in 1..Len(sent.recs) : \A lv \in LeavesOf(sent.recs[j], <<>>) : Specified(lv[2])

\* C4: capacity growth. With records of one schema, after N >= 1 completed
\* writes the capacity of every leaf before close() is the smallest multiple
\* of C greater than N - 1, and a write at index i that finds a capacity <= i
\* sets it to C * (floor(i / C) + 1).
C4_CapacityGrowth ==
  /\ []((~closed /\ OneSchema /\ SpecifiedLeaves /\ pc = "idle" /\ i >= 1) =>
          \A name \in DOMAIN f.ds :
            Capacity(f, name) = chunksize * (((i - 1) \div chunksize) + 1))
  /\ [][(~closed /\ pc = "idle" /\ ncalls' = ncalls + 1 /\ OneSchema' /\ SpecifiedLeaves') =>
          \A name \in DOMAIN f.ds :
            Capacity(f, name) <= i =>
              Capacity(f', name) = chunksize * ((i \div chunksize) + 1)]_vars

C6_NestedGroups ==
  (/\ JustClosed /\ OneSchema /\ sent.recs # <<>>
   /\ \A j \in 1..Len(sent.recs) : sent.recs[j] = sent.recs[1]
   /\ sent.recs[1].keys = <<"g">>
   /\ Specified(sent.recs[1].val["g"].val["x"]))
  => /\ <<"g">> \in disk.groups
     /\ <<"g", "x">> \in DOMAIN disk.ds
     /\ Capacity(disk, <<"g", "x">>) = Len(sent.recs)
     /\ \A j \in 1..Len(sent.recs) :
          Holds(disk, <<"g", "x">>, j - 1, sent.recs[1].val["g"].val["x"])

\* The axis tag the spec gives a first value.
ClaimedAxes(val) ==
  IF val.kind = "scalar" THEN "experiment_identifier:value"
  ELSE IF Len(val.shape) = 1 THEN "experiment_identifier:x"
  ELSE IF Len(val.shape) = 2 THEN "experiment_identifier:y:x"
  ELSE "experiment_identifier:z:y:x"

\* C7: axis tagging. Every Stacked Array carries an axes attribute; for a
\* first value that is a scalar or an array of 1 to 3 dimensions it is the
\* tag of that dimensionality, and no step changes the tag of a dataset.
C7_AxisTag ==
  /\ [](\A file \in {f, disk} : \A name \in DOMAIN file.ds :
          /\ name \in DOMAIN first
          /\ file.ds[name].axes # ""
          /\ Specified(first[name]) => file.ds[name].axes = ClaimedAxes(first[name]))
  /\ [][\A name \in DOMAIN f.ds :
          name \in DOMAIN f'.ds /\ f'.ds[name].axes = f.ds[name].axes]_vars

\* C7 witness: a closed container holding a scalar leaf and a 1-D leaf, both
\* written again after their creation.
C7_Witness ==
  /\ closed /\ i = 2
  /\ DOMAIN disk.ds = {<<"a">>, <<"g", "x">>}
  /\ disk.ds[<<"a">>].axes = "experiment_identifier:value"
  /\ disk.ds[<<"g", "x">>].axes = "experiment_identifier:x"

\* C8: once the writer is closed, no call changes a Stacked Array or reaches
\* the increment of i, and every call ends by raising.
C8_WriteAfterClose ==
  [][closed =>
       /\ f' = f /\ disk' = disk /\ i' = i /\ closed'
       /\ pc' # "incr"
       /\ pc' = "idle" => result' = "ValueError"]_vars

\* C8 witness: one record written, the writer closed, a second write() made
\* and ended by the exception.
C8_Witness ==
  /\ closed /\ build = "py2" /\ chunksize = 2 /\ i = 1 /\ pc = "idle"
  /\ OneSchema /\ Len(sent.recs) = 2
  /\ sent.recs[1].keys = <<"a">> /\ sent.recs[1].val["a"].kind = "scalar"
  /\ result = "ValueError"

\* C9: with records of one schema, a write() that meets a leaf it cannot
\* coerce (a warning is logged) creates no Stacked Array for that leaf,
\* stores every other leaf of the record at position i and goes on to the
\* flush and the increment without raising.
C9_WarnAndContinue ==
  [][(Len(warned') > Len(warned) /\ OneSchema') =>
       /\ pc' = "flush" /\ result' = "running"
       /\ \A n \in (Len(warned) + 1)..Len(warned') : warned'[n] \notin DOMAIN f'.ds
       /\ \A lv \in LeavesOf(arg', <<>>) :
            lv[2].kind # "object" => Holds(f', lv[1], i, lv[2])]_vars

C15_TypeAndShapeFixed ==
  \A file \in {f, disk} : \A name \in DOMAIN file.ds :
    /\ name \in DOMAIN first
    /\ Tail(file.ds[name].shape) = first[name].shape
    /\ file.ds[name].dtype = DType(first[name])

\* C16: unsupported dimensionality. No Stacked Array is ever created for a
\* leaf whose first value is an array of more than 3 dimensions (write()
\* fails or drops the leaf).
C16_NoStackAboveThreeDims ==
  \A file \in {f, disk} : \A name \in DOMAIN file.ds :
    /\ name \in DOMAIN first
    /\ Len(first[name].shape) <= 3

\* Entry j of a dataset has never been written: it holds the fill value.
Unwritten(file, name, j) ==
  file.ds[name].rows[j + 1] = Fill(Tail(file.ds[name].shape), 0)

\* C17: late-appearing leaf. A write() at index K > 0 that meets a leaf for
\* the first time creates its Stacked Array, leaves it with a capacity > K
\* and the value at position K, the positions below K unwritten; no step
\* writes an unwritten position below i, and after close() the leaf has
\* length i.
C17_LateLeaf ==
  /\ [][\A name \in (DOMAIN first') \ (DOMAIN first) :
          (i > 0 /\ Specified(first'[name])) =>
            /\ name \in DOMAIN f'.ds
            /\ Capacity(f', name) > i
            /\ Holds(f', name, i, first'[name])
            /\ \A j \in 0..(i - 1) : Unwritten(f', name, j)]_vars
  /\ [][\A name \in DOMAIN f.ds : \A j \in 0..(i - 1) :
          (j < Capacity(f, name) /\ Unwritten(f, name, j)) =>
            /\ name \in DOMAIN f'.ds
            /\ j < Capacity(f', name)
            /\ Unwritten(f', name, j)]_vars
  /\ [](closed => \A name \in DOMAIN disk.ds : Capacity(disk, name) = i)

\* C19: a failed write does not corrupt state. i changes only by the
\* increment that ends a write() that did not raise; a write() that raises
\* leaves i and every entry at an index < i as they were; a write() that
\* does not raise has stored every leaf of its record at position i,
\* whatever a failed write left there.
C19_FailedWriteKeepsState ==
  /\ [][IF pc = "incr" THEN i' = i + 1 /\ result' = "ok" ELSE i' = i]_vars
  /\ [][(pc # "incr" /\ pc' = "idle" /\ result' # "ok") =>
          \A name \in DOMAIN f.ds : \A j \in 0..(i - 1) :
            j < Capacity(f, name) =>
              /\ name \in DOMAIN f'.ds
              /\ j < Capacity(f', name)
              /\ Entry(f', name, j) = Entry(f, name, j)]_vars
  /\ [][(pc = "idle" /\ pc' = "flush") =>
          \A lv \in LeavesOf(arg', <<>>) :
            lv[2].kind # "object" => Holds(f', lv[1], i, lv[2])]_vars

----------------------------------------------------------------------------
(* Vocabulary of the properties of read_map.                               *)

\* read_map has returned or raised.
ReadDone == reader.pc = "done"

\* The header is complete.
FullHeader == reader.file.hlen = HeaderSize

\* The bytes left for the payload once the symmetry block is passed.
PayloadBytes ==
  Len(reader.file.rest) - (IF reader.file.NSYMBT > 0 THEN reader.file.NSYMBT ELSE 0)

\* The warnings read_map logged.
Warnings == {reader.out.warned[n] : n \in 1..Len(reader.out.warned)}

\* C11: map header decode. For a file with a complete header of extents
\* (c, r, s), mode 2 and NSYMBT 0, followed by exactly c*r*s 32-bit floats,
\* read_map returns an array of shape (c, r, s) whose elements are the
\* payload's 4-byte groups in order.
C11_MapHeaderDecode ==
  (/\ ReadDone /\ FullHeader
   /\ reader.file.MODE = 2 /\ reader.file.NSYMBT = 0
   /\ Len(reader.file.rest) = 4 * Prod(reader.file.NCNRNS))
  => /\ reader.out.result = "returned"
     /\ reader.out.ret.shape = reader.file.NCNRNS
     /\ Len(reader.out.ret.elems) = Prod(reader.file.NCNRNS)
     /\ \A k \in 1..Len(reader.out.ret.elems) :
          reader.out.ret.elems[k] = SubSeq(reader.file.rest, 4 * k - 3, 4 * k)

\* C12: truncated payload. For a file with a complete header and mode 2
\* whose payload is not 4 bytes times the product of the extents, read_map
\* fails with the condition of a truncated payload (the ValueError of
\* frombuffer or reshape) and returns no array.
C12_TruncatedPayload ==
  (/\ ReadDone /\ FullHeader
   /\ reader.file.MODE = 2
   /\ PayloadBytes >= 0
   /\ PayloadBytes # 4 * Prod(reader.file.NCNRNS))
  => /\ reader.out.result = "ValueError"
     /\ reader.out.ret = NoArray

\* C13: malformed header. For a file with fewer than 1024 bytes read_map
\* fails with the condition of a malformed header (the exception of a header
\* word that is cut or missing) and returns no array.
C13_MalformedHeader ==
  (ReadDone /\ ~FullHeader)
  => /\ reader.out.result \in {"ValueError", "IndexError"}
     /\ reader.out.ret = NoArray

\* C14: map mode handling. With a complete header, read_map logs the "may
\* not work" warning exactly when the mode is outside {0, 2, 5} and does not
\* reject a file on account of such a mode.
C14_ModeWarning ==
  (ReadDone /\ FullHeader)
  => /\ ("mode" \in Warnings) <=> (reader.file.MODE \notin {0, 2, 5})
     /\ reader.file.MODE \notin {0, 2, 5} =>
          reader.out.result \notin {"IndexError", "TypeError"}

\* C18: symmetry block. With a complete header of mode 2, read_map skips
\* exactly NSYMBT bytes after the header and logs the warning when
\* NSYMBT > 0, and skips nothing and logs no such warning when NSYMBT <= 0.
C18_SymmetrySkip ==
  (ReadDone /\ FullHeader /\ reader.file.MODE = 2 /\ PayloadBytes >= 0)
  => IF reader.file.NSYMBT > 0
     THEN reader.out.skipped = reader.file.NSYMBT /\ "symmetry" \in Warnings
     ELSE reader.out.skipped = 0 /\ "symmetry" \notin Warnings
====
